---- MODULE Spec2Model ----
(***************************************************************************)
(* keras/layers/rnn/cell_wrappers.py: the RNN cell wrappers                *)
(* (_RNNCellWrapper, DropoutWrapper, ResidualWrapper, DeviceWrapper), and  *)
(* keras/dtensor/mnist_model_test.py: the MNIST end-to-end training test.  *)
(*                                                                         *)
(* Spec     : one wrapped cell, the wrapper built around it, and the       *)
(*            operations __init__, build, call, get_config, from_config.   *)
(* SpecTest : the statements of the two MNIST tests, one per step.         *)
(***************************************************************************)
EXTENDS Integers, Sequences, FiniteSets, TLC

VARIABLES
    cell,          \* the cell object handed to the wrapper's constructor
    wrapper,       \* the wrapper object, NoWrapper before it is constructed
    callerConfig,  \* the dictionary object the caller hands to from_config
    ret,           \* the last operation: its arguments and its outcome
    pc,            \* the next statement of the running test method
    tf_config,     \* tf.config / TPU system: logical devices per kind
    mesh,          \* the local variable mesh
    random,        \* backend random generator switch and the global seed
    model,         \* the local variable model
    optimizer,     \* the local variable optimizer
    train_call,    \* the arguments of the training call
    train_losses,  \* the local variable train_losses
    verdict        \* outcome of the test method

wvars == <<cell, wrapper, callerConfig, ret>>
tvars == <<pc, tf_config, mesh, random, model, optimizer, train_call, train_losses, verdict>>
vars == <<cell, wrapper, callerConfig, ret, pc, tf_config, mesh, random, model, optimizer, train_call, train_losses, verdict>>

---------------------------------------------------------------------------
(* Bounds and input domains.                                               *)

\* How many times build may be invoked on the wrapper in one behaviour.
MaxBuilds == 2

\* Longest sequence of losses the training call returns.
MaxLosses == 4

\* Loss values are drawn from 1 .. MaxLoss.
MaxLoss == 3

\* Largest number of TPU devices the TPU system reports.
MaxTpuDevices == 2

InputShapes == {1, 2}
CellConfigs == {1, 2}
Inputs == {"x1", "x2"}
States == {"h1", "h2"}
Outputs == {"y1"}

---------------------------------------------------------------------------
(* Python values.                                                          *)

EmptyDict == [k \in {} |-> 0]

\* d.pop(key) leaves d without key.
DictWithout(d, key) == [k \in (DOMAIN d) \ {key} |-> d[k]]

\* Keys in the order a dictionary built by the code lists them (items()).
KeyOrder == <<"name", "cell", "training", "cell_call_fn">>

\* list(d.items()): the (key, value) pairs of d, in order.
Items(d) ==
    LET present == SelectSeq(KeyOrder, LAMBDA k : k \in DOMAIN d)
    IN  [i \in 1 .. Len(present) |-> <<present[i], d[present[i]]>>]

\* dict(pairs): a later pair with the same key replaces an earlier one.
DictOfItems(pairs) ==
    LET keys == {pairs[i][1] : i \in DOMAIN pairs}
        last(k) == CHOOSE i \in DOMAIN pairs :
                      /\ pairs[i][1] = k
                      /\ \A j \in DOMAIN pairs : pairs[j][1] = k => j <= i
    IN  [k \in keys |-> pairs[last(k)][2]]

---------------------------------------------------------------------------
(* The cells a wrapper may be given.                                       *)

\* Classes of the wrapped cell: lstm_v1.LSTMCell, a subclass of it, another
\* built-in cell, and two user cells.
CellClasses == {"LSTMCell", "LSTMSubclass", "GRUCell", "CustomCell", "KwargsCell"}

\* isinstance(cell, lstm_v1.LSTMCell)
IsInstanceLSTMCell(c) == c.cls \in {"LSTMCell", "LSTMSubclass"}

\* tf_inspect.getfullargspec(cell.call).args
CellCallArgs(c) ==
    IF c.cls \in {"LSTMCell", "LSTMSubclass", "GRUCell"}
    THEN <<"self", "inputs", "states", "training">>
    ELSE <<"self", "inputs", "states">>

\* tf_inspect.getfullargspec(cell.call).varkw
CellCallVarkw(c) == IF c.cls = "KwargsCell" THEN "kwargs" ELSE "None"

\* cell.__class__.__name__
CellClassName(c) == c.cls

\* cell.get_config()
CellGetConfig(c) == c.config

Cells == {[cls |-> k, config |-> g, build_calls |-> <<>>] : k \in CellClasses, g \in CellConfigs}

\* Object identities of the cell given to the constructor and of the cell
\* that deserialization creates.
GivenCell == "cell#1"
DeserializedCell == "cell#2"

WrapperClasses == {"RNNCellWrapper", "DropoutWrapper", "ResidualWrapper", "DeviceWrapper"}

NoWrapper == [exists |-> FALSE]

\* Keyword arguments of the base layer: every layer is given a name.
LayerKwargs == {[name |-> "w"]}

---------------------------------------------------------------------------
(* _RNNCellWrapper.__init__ and the subclasses' constructors.              *)

\* ("training" in cell_call_spec.args) or (cell_call_spec.varkw is not None)
ExpectsTrainingArg(c) ==
    LET args == CellCallArgs(c)
    IN  (\E i \in DOMAIN args : args[i] = "training") \/ (CellCallVarkw(c) # "None")

RNNCellWrapperInit_NoVarkw(cls, cellId, c, kwargs) ==
    [outcome |-> "returned",
     wrapper |-> [exists |-> TRUE, cls |-> cls, cell |-> cellId,
                  expects_training_arg |->
                      (\E i \in DOMAIN CellCallArgs(c) : CellCallArgs(c)[i] = "training"),
                  built |-> FALSE, kwargs |-> kwargs]]

\* _RNNCellWrapper.__init__(self, cell, **kwargs): the base layer is
\* initialised with kwargs (not built), then cell and the flag are set.
RNNCellWrapperInit(cls, cellId, c, kwargs) ==
    [outcome |-> "returned",
     wrapper |-> [exists |-> TRUE, cls |-> cls, cell |-> cellId,
                  expects_training_arg |-> ExpectsTrainingArg(c),
                  built |-> FALSE, kwargs |-> kwargs]]

DropoutWrapperInit_NoCheck(cls, cellId, c, kwargs) ==
    RNNCellWrapperInit(cls, cellId, c, kwargs)

\* DropoutWrapper.__init__: the base constructor, then the LSTMCell check;
\* the raise leaves the caller without a wrapper.
DropoutWrapperInit(cls, cellId, c, kwargs) ==
    LET made == RNNCellWrapperInit(cls, cellId, c, kwargs)
    IN  IF IsInstanceLSTMCell(c)
        THEN [outcome |-> "ValueError", wrapper |-> NoWrapper]
        ELSE made

\* ResidualWrapper.__init__
ResidualWrapperInit(cls, cellId, c, kwargs) ==
    RNNCellWrapperInit(cls, cellId, c, kwargs)

\* DeviceWrapper.__init__
DeviceWrapperInit(cls, cellId, c, kwargs) ==
    RNNCellWrapperInit(cls, cellId, c, kwargs)

\* cls(cell, **kwargs)
WrapperInit(cls, cellId, c, kwargs) ==
    CASE cls = "DropoutWrapper" -> DropoutWrapperInit(cls, cellId, c, kwargs)
      [] cls = "ResidualWrapper" -> ResidualWrapperInit(cls, cellId, c, kwargs)
      [] cls = "DeviceWrapper" -> DeviceWrapperInit(cls, cellId, c, kwargs)
      [] OTHER -> RNNCellWrapperInit(cls, cellId, c, kwargs)

---------------------------------------------------------------------------
(* _RNNCellWrapper.build                                                   *)

build_WithoutCellBuild(self, c, inputs_shape, cellBuildRaises) ==
    [outcome |-> "returned", cell |-> c, wrapper |-> [self EXCEPT !.built = TRUE]]

\* self.cell.build(inputs_shape); self.built = True.  The cell's build is
\* invoked with inputs_shape; when it raises, the assignment is not reached.
build(self, c, inputs_shape, cellBuildRaises) ==
    LET called == [c EXCEPT !.build_calls = Append(@, inputs_shape)]
    IN  IF cellBuildRaises
        THEN [outcome |-> "raised", cell |-> called, wrapper |-> self]
        ELSE [outcome |-> "returned", cell |-> called,
              wrapper |-> [self EXCEPT !.built = TRUE]]

---------------------------------------------------------------------------
(* _RNNCellWrapper.call                                                    *)

\* The wrapper classes whose base (DropoutWrapperBase, ResidualWrapperBase,
\* DeviceWrapperBase) provides _call_wrapped_cell.
HasCallWrappedCell(cls) == cls \in {"DropoutWrapper", "ResidualWrapper", "DeviceWrapper"}

\* What _call_wrapped_cell may do with its arguments: return an
\* (output, new state) pair, or raise.
CallWrappedCellOutcomes ==
    {<<"raised", "none", "none">>} \cup {<<"returned", o, s>> : o \in Outputs, s \in States}

\* Keyword arguments a caller may give to call.
CallKwargs == {EmptyDict, [training |-> TRUE], [training |-> TRUE, cell_call_fn |-> "f"]}

NotDelegated == [invoked |-> FALSE]
NoValue == <<"none", "none">>

call_ViaDunderCall(self, inputs, state, kwargs, helper) ==
    [outcome |-> helper[1],
     delegated |-> [invoked |-> TRUE, inputs |-> inputs, state |-> state,
                    cell_call_fn |-> <<self.cell, "__call__">>, kwargs |-> kwargs,
                    result |-> <<helper[2], helper[3]>>],
     value |-> <<helper[2], helper[3]>>]

\* return self._call_wrapped_cell(inputs, state, cell_call_fn=self.cell.call,
\*                                **kwargs)
\* The attribute is looked up first; a key cell_call_fn in kwargs collides
\* with the explicit keyword and the call raises TypeError before the helper
\* runs; otherwise the helper's outcome (helper) is the outcome of call.
call(self, inputs, state, kwargs, helper) ==
    IF ~HasCallWrappedCell(self.cls)
    THEN [outcome |-> "AttributeError", delegated |-> NotDelegated, value |-> NoValue]
    ELSE IF "cell_call_fn" \in DOMAIN kwargs
    THEN [outcome |-> "TypeError", delegated |-> NotDelegated, value |-> NoValue]
    ELSE [outcome |-> helper[1],
          delegated |-> [invoked |-> TRUE, inputs |-> inputs, state |-> state,
                         cell_call_fn |-> <<self.cell, "call">>, kwargs |-> kwargs,
                         result |-> <<helper[2], helper[3]>>],
          value |-> <<helper[2], helper[3]>>]

---------------------------------------------------------------------------
(* _RNNCellWrapper.get_config                                              *)

\* A "cell" entry some base layer config might already hold.
StaleCellEntry == [class_name |-> "Stale", config |-> 0]

\* super(_RNNCellWrapper, self).get_config(): the base layer's config holds
\* the layer's keyword arguments; a base that already reports a "cell" entry
\* is included as a possibility.
BaseGetConfig(self) ==
    {self.kwargs, DictOfItems(Items(self.kwargs) \o <<(<<"cell", StaleCellEntry>>)>>)}

get_config_BaseWins(self, c, base_config) ==
    LET config == [cell |-> [class_name |-> CellClassName(c), config |-> CellGetConfig(c)]]
    IN  DictOfItems(Items(config) \o Items(base_config))

\* config = {"cell": {"class_name": ..., "config": ...}}
\* return dict(list(base_config.items()) + list(config.items()))
get_config(self, c, base_config) ==
    LET config == [cell |-> [class_name |-> CellClassName(c), config |-> CellGetConfig(c)]]
    IN  DictOfItems(Items(base_config) \o Items(config))

---------------------------------------------------------------------------
(* _RNNCellWrapper.from_config                                             *)

\* Layer classes deserialize_layer finds without custom_objects.
RegisteredLayers == {"LSTMCell", "GRUCell"}

\* The custom_objects a caller may give (None is the empty set).
CustomObjects == {{}, {"LSTMSubclass", "CustomCell", "KwargsCell"}}

DeserializeFails == [raised |-> TRUE]

\* deserialize_layer(entry, custom_objects=custom_objects): a new, unbuilt
\* layer of the class named entry["class_name"], made from entry["config"];
\* it raises when the class is found neither among the registered layers nor
\* among custom_objects, and the class's own from_config may raise too.
DeserializeLayer(entry, custom_objects) ==
    {DeserializeFails} \cup
    (IF entry.class_name \in (RegisteredLayers \cup custom_objects) \cap CellClasses
     THEN {[cls |-> entry.class_name, config |-> entry.config, build_calls |-> <<>>]}
     ELSE {})

from_config_PopsCallersDict(cls, config, custom_objects, deserialized) ==
    IF "cell" \notin DOMAIN config
    THEN [outcome |-> "KeyError", wrapper |-> NoWrapper, cell |-> DeserializeFails,
          kwargs |-> EmptyDict, caller_config |-> config]
    ELSE IF deserialized = DeserializeFails
    THEN [outcome |-> "raised", wrapper |-> NoWrapper, cell |-> DeserializeFails,
          kwargs |-> EmptyDict, caller_config |-> DictWithout(config, "cell")]
    ELSE LET made == WrapperInit(cls, DeserializedCell, deserialized, DictWithout(config, "cell"))
         IN  [outcome |-> made.outcome, wrapper |-> made.wrapper, cell |-> deserialized,
              kwargs |-> DictWithout(config, "cell"),
              caller_config |-> DictWithout(config, "cell")]

from_config_KeepsCellKwarg(cls, config, custom_objects, deserialized) ==
    IF "cell" \notin DOMAIN config
    THEN [outcome |-> "KeyError", wrapper |-> NoWrapper, cell |-> DeserializeFails,
          kwargs |-> EmptyDict, caller_config |-> config]
    ELSE IF deserialized = DeserializeFails
    THEN [outcome |-> "raised", wrapper |-> NoWrapper, cell |-> DeserializeFails,
          kwargs |-> EmptyDict, caller_config |-> config]
    ELSE LET made == WrapperInit(cls, DeserializedCell, deserialized, config)
         IN  [outcome |-> made.outcome, wrapper |-> made.wrapper, cell |-> deserialized,
              kwargs |-> config, caller_config |-> config]

\* config = config.copy()
\* cell = deserialize_layer(config.pop("cell"), custom_objects=custom_objects)
\* return cls(cell, **config)
\* deserialized is what deserialize_layer does with the popped entry;
\* caller_config is the caller's dictionary as the call leaves it.
from_config(cls, config, custom_objects, deserialized) ==
    LET copy == config
    IN  IF "cell" \notin DOMAIN copy
        THEN [outcome |-> "KeyError", wrapper |-> NoWrapper, cell |-> DeserializeFails,
              kwargs |-> EmptyDict, caller_config |-> config]
        ELSE LET rest == DictWithout(copy, "cell")
             IN  IF deserialized = DeserializeFails
                 THEN [outcome |-> "raised", wrapper |-> NoWrapper,
                       cell |-> DeserializeFails, kwargs |-> EmptyDict,
                       caller_config |-> config]
                 ELSE LET made == WrapperInit(cls, DeserializedCell, deserialized, rest)
                      IN  [outcome |-> made.outcome, wrapper |-> made.wrapper,
                           cell |-> deserialized, kwargs |-> rest,
                           caller_config |-> config]

\* A hand-written dictionary without a "cell" entry.
HandWrittenConfig == [name |-> "v"]

---------------------------------------------------------------------------
(* State machine of the wrapper: Spec.                                     *)

\* An unbound local variable of a test method.
NoObject == [exists |-> FALSE]

\* No test method is running.
TestIdle ==
    /\ pc = [test |-> "none", at |-> 0]
    /\ tf_config = [CPU |-> 1, TPU |-> 0]
    /\ mesh = NoObject
    /\ random = [generator_enabled |-> FALSE, seed |-> <<>>]
    /\ model = NoObject
    /\ optimizer = NoObject
    /\ train_call = NoObject
    /\ train_losses = <<>>
    /\ verdict = "none"

Init ==
    /\ cell \in Cells
    /\ wrapper = NoWrapper
    /\ callerConfig = HandWrittenConfig
    /\ ret = [op |-> "none"]
    /\ TestIdle

\* w = cls(cell, **kwargs)
Construct(cls, kwargs) ==
    /\ ~wrapper.exists
    /\ LET made == WrapperInit(cls, GivenCell, cell, kwargs)
       IN  /\ wrapper' = made.wrapper
           /\ ret' = [op |-> "init", cls |-> cls, cell |-> cell, kwargs |-> kwargs,
                      outcome |-> made.outcome, wrapper |-> made.wrapper]
    /\ UNCHANGED <<cell, callerConfig>>
    /\ UNCHANGED tvars

\* w.build(inputs_shape)
Build(inputs_shape, cellBuildRaises) ==
    /\ wrapper.exists
    /\ Len(cell.build_calls) < MaxBuilds
    /\ LET done == build(wrapper, cell, inputs_shape, cellBuildRaises)
       IN  /\ wrapper' = done.wrapper
           /\ cell' = done.cell
           /\ ret' = [op |-> "build", inputs_shape |-> inputs_shape,
                      outcome |-> done.outcome]
    /\ UNCHANGED callerConfig
    /\ UNCHANGED tvars

\* w.call(inputs, state, **kwargs)
Call(inputs, state, kwargs, helper) ==
    /\ wrapper.exists
    /\ LET done == call(wrapper, inputs, state, kwargs, helper)
       IN  ret' = [op |-> "call", inputs |-> inputs, state |-> state, kwargs |-> kwargs,
                   outcome |-> done.outcome,
                   delegated |-> done.delegated, value |-> done.value]
    /\ UNCHANGED <<cell, wrapper, callerConfig>>
    /\ UNCHANGED tvars

\* config = w.get_config()
GetConfig ==
    /\ wrapper.exists
    /\ \E base_config \in BaseGetConfig(wrapper) :
           LET value == get_config(wrapper, cell, base_config)
           IN  /\ callerConfig' = value
               /\ ret' = [op |-> "get_config", base_config |-> base_config,
                          value |-> value]
    /\ UNCHANGED <<cell, wrapper>>
    /\ UNCHANGED tvars

\* cls.from_config(config, custom_objects)
FromConfig(cls, custom_objects) ==
    /\ \E deserialized \in (IF "cell" \in DOMAIN callerConfig
                            THEN DeserializeLayer(callerConfig["cell"], custom_objects)
                            ELSE {DeserializeFails}) :
       LET config == callerConfig
           done == from_config(cls, config, custom_objects, deserialized)
       IN  /\ callerConfig' = done.caller_config
           /\ ret' = [op |-> "from_config", cls |-> cls, config |-> config,
                      custom_objects |-> custom_objects, outcome |-> done.outcome,
                      wrapper |-> done.wrapper, cell |-> done.cell,
                      kwargs |-> done.kwargs]
    /\ UNCHANGED <<cell, wrapper>>
    /\ UNCHANGED tvars

Next ==
    \/ \E cls \in WrapperClasses, kwargs \in LayerKwargs : Construct(cls, kwargs)
    \/ \E s \in InputShapes, r \in BOOLEAN : Build(s, r)
    \/ \E i \in Inputs, s \in States, k \in CallKwargs, h \in CallWrappedCellOutcomes :
           Call(i, s, k, h)
    \/ GetConfig
    \/ \E cls \in WrapperClasses, co \in CustomObjects : FromConfig(cls, co)

Spec == Init /\ [][Next]_vars

---------------------------------------------------------------------------
(* Properties of the wrapper, checked under Spec.                          *)

\* C1: build invokes the wrapped cell's build with the same inputs_shape and,
\* when that returns, sets built; so a built wrapper's cell has had its
\* build invoked.
C1_BuildDelegatesToCell ==
    /\ ret.op = "build" =>
          /\ cell.build_calls # <<>>
          /\ cell.build_calls[Len(cell.build_calls)] = ret.inputs_shape
          /\ (ret.outcome = "returned" => wrapper.built)
    /\ (wrapper.exists /\ wrapper.built) => cell.build_calls # <<>>

C1_Witness ==
    /\ ret.op = "build"
    /\ ret.outcome = "returned"
    /\ wrapper.built
    /\ Len(cell.build_calls) = 2
    /\ cell.build_calls[1] # cell.build_calls[2]

\* What call hands to _call_wrapped_cell and gets back, when it delegates.
Delegation(w, r) ==
    [invoked |-> TRUE, inputs |-> r.inputs, state |-> r.state,
     cell_call_fn |-> <<w.cell, "call">>, kwargs |-> r.kwargs, result |-> r.value]

\* C2 as stated: for every inputs, state and keyword arguments, call (of a
\* wrapper class that has _call_wrapped_cell) runs _call_wrapped_cell with
\* inputs, state, cell_call_fn = the cell's call and all the keyword
\* arguments, and returns what it returns.
C2_Original ==
    (ret.op = "call" /\ HasCallWrappedCell(wrapper.cls)) =>
        /\ ret.delegated = Delegation(wrapper, ret)
        /\ ret.outcome \in {"returned", "raised"}

\* C2 amended: the delegation holds for keyword arguments without the name
\* cell_call_fn (a call that returns has delegated exactly so); with
\* cell_call_fn among them the call raises and the helper is not run.
C2_CallDelegates ==
    ret.op = "call" =>
        /\ ret.outcome = "returned" => ret.delegated = Delegation(wrapper, ret)
        /\ (HasCallWrappedCell(wrapper.cls) /\ "cell_call_fn" \notin DOMAIN ret.kwargs) =>
              /\ ret.delegated = Delegation(wrapper, ret)
              /\ ret.outcome \in {"returned", "raised"}
        /\ (HasCallWrappedCell(wrapper.cls) /\ "cell_call_fn" \in DOMAIN ret.kwargs) =>
              /\ ret.outcome = "TypeError"
              /\ ~ret.delegated.invoked

C2_Witness ==
    /\ ret.op = "call"
    /\ ret.outcome = "returned"
    /\ ret.inputs = "x2"
    /\ ret.state = "h1"
    /\ ret.kwargs = [training |-> TRUE]
    /\ ret.value = <<"y1", "h2">>

\* C3: get_config returns the base config's entries plus the entry "cell" =
\* {class_name, config} of the wrapped cell; the wrapper's "cell" entry
\* replaces one the base config holds.
C3_GetConfigMergesCell ==
    ret.op = "get_config" =>
        /\ DOMAIN ret.value = DOMAIN ret.base_config \cup {"cell"}
        /\ \A k \in DOMAIN ret.base_config \ {"cell"} : ret.value[k] = ret.base_config[k]
        /\ ret.value["cell"] = [class_name |-> cell.cls, config |-> cell.config]

C3_Witness ==
    /\ ret.op = "get_config"
    /\ "cell" \in DOMAIN ret.base_config
    /\ "name" \in DOMAIN ret.base_config
    /\ ret.base_config["cell"] # ret.value["cell"]

C5_DropoutRejectsLSTMCell ==
    /\ ret.op = "init" =>
          /\ (ret.outcome = "ValueError") <=>
                 (ret.cls = "DropoutWrapper" /\ ret.cell.cls \in {"LSTMCell", "LSTMSubclass"})
          /\ ret.outcome = "ValueError" => (~ret.wrapper.exists /\ ~wrapper.exists)
          /\ ret.outcome # "ValueError" => (wrapper.exists /\ wrapper.cls = ret.cls)
    /\ (ret.op = "from_config" /\ ret.cell # DeserializeFails) =>
          /\ (ret.outcome = "ValueError") <=>
                 (ret.cls = "DropoutWrapper" /\ ret.cell.cls \in {"LSTMCell", "LSTMSubclass"})
          /\ ret.outcome = "ValueError" => ~ret.wrapper.exists

C5_Witness ==
    /\ ret.op = "init"
    /\ ret.cls = "DropoutWrapper"
    /\ ret.cell.cls = "LSTMSubclass"
    /\ ret.outcome = "ValueError"
    /\ ~wrapper.exists

\* The flag as the constructor computes it from the cell's call signature.
FlagOf(c) ==
    \/ "training" \in {CellCallArgs(c)[i] : i \in DOMAIN CellCallArgs(c)}
    \/ CellCallVarkw(c) = "kwargs"

\* C8: after construction the flag is True iff the cell's call has an
\* argument "training" or takes **kwargs; the flag and the cell reference
\* do not change afterwards.
C8_TrainingFlagFrame ==
    /\ [](/\ wrapper.exists =>
                /\ wrapper.expects_training_arg = FlagOf(cell)
                /\ wrapper.cell = GivenCell
          /\ (ret.op = "from_config" /\ ret.wrapper.exists) =>
                ret.wrapper.expects_training_arg = FlagOf(ret.cell))
    /\ [][wrapper.exists =>
             /\ wrapper'.exists
             /\ wrapper'.cell = wrapper.cell
             /\ wrapper'.expects_training_arg = wrapper.expects_training_arg]_vars

C8_Witness ==
    /\ wrapper.exists
    /\ wrapper.built
    /\ cell.cls = "KwargsCell"
    /\ wrapper.expects_training_arg
    /\ ret.op = "call"

\* C9: from_config leaves the caller's dictionary as it was given, whether
\* it returns or raises.
C9_FromConfigKeepsArgument ==
    ret.op = "from_config" => callerConfig = ret.config

C9_Witness ==
    /\ ret.op = "from_config"
    /\ ret.outcome = "returned"
    /\ "cell" \in DOMAIN callerConfig
    /\ "name" \in DOMAIN callerConfig
    /\ "cell" \notin DOMAIN ret.kwargs

---------------------------------------------------------------------------
(* keras/dtensor/mnist_model_test.py: the statements of the test methods.  *)

\* [tf.config.LogicalDeviceConfiguration(),] * 8
LogicalDeviceCount == 8

\* devices=['CPU:%d' % i for i in range(8)]
MeshDeviceCount == 8

\* mesh_dims=[('batch', 8)]
BatchDimSize == 8

\* tf_utils.set_random_seed(1337)
RandomSeed == 1337

NumEpochs == 3
StepsPerEpoch == 100
GlobalBatchSize == 64

CpuTestStatements_MeshFirst ==
    <<"create_mesh", "set_logical_device_configuration",
      "enable_tf_random_generator", "set_random_seed", "get_model",
      "Adam", "optimizer_build", "train", "assertEqual">>

\* test_mnist_training_cpu, statement by statement.
CpuTestStatements ==
    <<"set_logical_device_configuration", "create_mesh",
      "enable_tf_random_generator", "set_random_seed", "get_model",
      "Adam", "optimizer_build", "train", "assertEqual">>

\* DISABLED_test_mnist_training_tpu, statement by statement.
TpuTestStatements ==
    <<"dtensor_initialize_tpu_system", "create_tpu_mesh", "set_random_seed",
      "get_model", "Adam", "optimizer_build", "train", "assertEqual">>

Statements(test) == IF test = "cpu" THEN CpuTestStatements ELSE TpuTestStatements

\* The statement the test method is at, "return" after the last one.
At(p) ==
    IF p.test \in {"cpu", "tpu"} /\ p.at \in DOMAIN Statements(p.test)
    THEN Statements(p.test)[p.at]
    ELSE "return"

Advance(p) == [p EXCEPT !.at = @ + 1]

\* sorted(xs, reverse=True): a stable sort into descending order.
RECURSIVE InsertDescending(_, _)
InsertDescending(x, sorted) ==
    IF sorted = <<>> THEN <<x>>
    ELSE IF Head(sorted) >= x THEN <<Head(sorted)>> \o InsertDescending(x, Tail(sorted))
    ELSE <<x>> \o sorted

RECURSIVE SortedReverse(_)
SortedReverse(xs) ==
    IF xs = <<>> THEN <<>>
    ELSE InsertDescending(xs[Len(xs)], SortedReverse(SubSeq(xs, 1, Len(xs) - 1)))

\* self.assertEqual(train_losses, sorted(train_losses, reverse=True))
LossesAssertion(losses) == losses = SortedReverse(losses)

\* The sequences of losses the training call may return.
LossSequences == UNION {[1 .. n -> 1 .. MaxLoss] : n \in 0 .. MaxLosses}

InitTest ==
    /\ pc \in {[test |-> "cpu", at |-> 1], [test |-> "tpu", at |-> 1]}
    /\ tf_config = [CPU |-> 1, TPU |-> 0]
    /\ mesh = NoObject
    /\ random = [generator_enabled |-> FALSE, seed |-> <<>>]
    /\ model = NoObject
    /\ optimizer = NoObject
    /\ train_call = NoObject
    /\ train_losses = <<>>
    /\ verdict = "none"
    /\ cell = [cls |-> "GRUCell", config |-> 1, build_calls |-> <<>>]
    /\ wrapper = NoWrapper
    /\ callerConfig = HandWrittenConfig
    /\ ret = [op |-> "none"]

\* tf.config.set_logical_device_configuration(devices[0], [...] * 8)
SetLogicalDeviceConfiguration ==
    /\ At(pc) = "set_logical_device_configuration"
    /\ tf_config' = [tf_config EXCEPT !.CPU = LogicalDeviceCount]
    /\ pc' = Advance(pc)
    /\ UNCHANGED <<mesh, random, model, optimizer, train_call, train_losses, verdict>>
    /\ UNCHANGED wvars

\* mesh = mesh_util.create_mesh(devices=[...], mesh_dims=[('batch', 8)])
CreateMesh ==
    /\ At(pc) = "create_mesh"
    /\ mesh' = [exists |-> TRUE,
                devices |-> [i \in 1 .. MeshDeviceCount |-> <<"CPU", i - 1>>],
                mesh_dims |-> << <<"batch", BatchDimSize>> >>]
    /\ pc' = Advance(pc)
    /\ UNCHANGED <<tf_config, random, model, optimizer, train_call, train_losses, verdict>>
    /\ UNCHANGED wvars

\* tpu_util.dtensor_initialize_tpu_system()
\* total_tpu_device_count = dtensor.num_global_devices('TPU')
InitializeTpuSystem ==
    /\ At(pc) = "dtensor_initialize_tpu_system"
    /\ \E n \in 1 .. MaxTpuDevices : tf_config' = [tf_config EXCEPT !.TPU = n]
    /\ pc' = Advance(pc)
    /\ UNCHANGED <<mesh, random, model, optimizer, train_call, train_losses, verdict>>
    /\ UNCHANGED wvars

\* mesh_shape = [total_tpu_device_count]
\* mesh = tpu_util.create_tpu_mesh(['batch'], mesh_shape, 'tpu_mesh')
CreateTpuMesh ==
    /\ At(pc) = "create_tpu_mesh"
    /\ mesh' = [exists |-> TRUE,
                devices |-> [i \in 1 .. tf_config.TPU |-> <<"TPU", i - 1>>],
                mesh_dims |-> << <<"batch", tf_config.TPU>> >>]
    /\ pc' = Advance(pc)
    /\ UNCHANGED <<tf_config, random, model, optimizer, train_call, train_losses, verdict>>
    /\ UNCHANGED wvars

\* backend.enable_tf_random_generator()
EnableTfRandomGenerator ==
    /\ At(pc) = "enable_tf_random_generator"
    /\ random' = [random EXCEPT !.generator_enabled = TRUE]
    /\ pc' = Advance(pc)
    /\ UNCHANGED <<tf_config, mesh, model, optimizer, train_call, train_losses, verdict>>
    /\ UNCHANGED wvars

\* tf_utils.set_random_seed(1337)
SetRandomSeed ==
    /\ At(pc) = "set_random_seed"
    /\ random' = [random EXCEPT !.seed = <<RandomSeed>>]
    /\ pc' = Advance(pc)
    /\ UNCHANGED <<tf_config, mesh, model, optimizer, train_call, train_losses, verdict>>
    /\ UNCHANGED wvars

\* model = integration_test_utils.get_model_with_layout_map(
\*     integration_test_utils.get_all_replicated_layout_map(mesh))
GetModel ==
    /\ At(pc) = "get_model"
    /\ model' = [exists |-> TRUE, layout_map_mesh |-> mesh, initializer_seed |-> random.seed]
    /\ pc' = Advance(pc)
    /\ UNCHANGED <<tf_config, mesh, random, optimizer, train_call, train_losses, verdict>>
    /\ UNCHANGED wvars

\* optimizer = optimizer_lib.Adam(learning_rate=0.001, mesh=mesh)
CreateOptimizer ==
    /\ At(pc) = "Adam"
    /\ optimizer' = [exists |-> TRUE, mesh |-> mesh, built_over |-> NoObject]
    /\ pc' = Advance(pc)
    /\ UNCHANGED <<tf_config, mesh, random, model, train_call, train_losses, verdict>>
    /\ UNCHANGED wvars

\* optimizer.build(model.trainable_variables)
BuildOptimizer ==
    /\ At(pc) = "optimizer_build"
    /\ optimizer' = [optimizer EXCEPT !.built_over = model]
    /\ pc' = Advance(pc)
    /\ UNCHANGED <<tf_config, mesh, random, model, train_call, train_losses, verdict>>
    /\ UNCHANGED wvars

\* train_losses = integration_test_utils.train_mnist_model_batch_sharded(
\*     model, optimizer, mesh, num_epochs=3, steps_per_epoch=100,
\*     global_batch_size=64)
Train ==
    /\ At(pc) = "train"
    /\ train_call' = [exists |-> TRUE, model |-> model, optimizer |-> optimizer,
                      mesh |-> mesh, num_epochs |-> NumEpochs,
                      steps_per_epoch |-> StepsPerEpoch,
                      global_batch_size |-> GlobalBatchSize]
    /\ train_losses' \in LossSequences
    /\ pc' = Advance(pc)
    /\ UNCHANGED <<tf_config, mesh, random, model, optimizer, verdict>>
    /\ UNCHANGED wvars

\* self.assertEqual(train_losses, sorted(train_losses, reverse=True))
AssertLossesDecreasing ==
    /\ At(pc) = "assertEqual"
    /\ verdict' = IF LossesAssertion(train_losses) THEN "passed" ELSE "AssertionError"
    /\ pc' = Advance(pc)
    /\ UNCHANGED <<tf_config, mesh, random, model, optimizer, train_call, train_losses>>
    /\ UNCHANGED wvars

NextTest ==
    \/ SetLogicalDeviceConfiguration
    \/ CreateMesh
    \/ InitializeTpuSystem
    \/ CreateTpuMesh
    \/ EnableTfRandomGenerator
    \/ SetRandomSeed
    \/ GetModel
    \/ CreateOptimizer
    \/ BuildOptimizer
    \/ Train
    \/ AssertLossesDecreasing

SpecTest == InitTest /\ [][NextTest]_vars

---------------------------------------------------------------------------
(* Properties of the tests, checked under SpecTest.                        *)

\* Every loss is lower than the loss before it.
StrictlyDecreasing(losses) ==
    \A i \in 1 .. Len(losses) - 1 : losses[i + 1] < losses[i]

\* C6: the assertion on the losses succeeds exactly when every loss is lower
\* than the loss before it.
C6_AssertionIffStrictlyDecreasing ==
    verdict # "none" => ((verdict = "passed") <=> StrictlyDecreasing(train_losses))

\* What the assertion does decide: no loss is higher than the loss before it.
AssertionIffNonIncreasing ==
    verdict # "none" =>
        ((verdict = "passed") <=>
             \A i \in 1 .. Len(train_losses) - 1 : train_losses[i + 1] <= train_losses[i])

\* C7: in the CPU test the 8 logical devices are configured before the mesh
\* is created, the mesh is one dimension 'batch' of size 8 over CPU:0..CPU:7,
\* the seed 1337 is set before the model is created, the optimizer is built
\* over the model's variables before training starts, and model, optimizer
\* and training call use the same mesh.
C7_CpuTestOrdering ==
    pc.test = "cpu" =>
        /\ mesh.exists =>
              /\ tf_config.CPU = 8
              /\ mesh.mesh_dims = << <<"batch", 8>> >>
              /\ mesh.devices = [i \in 1 .. 8 |-> <<"CPU", i - 1>>]
              /\ Len(mesh.devices) = tf_config.CPU
        /\ model.exists =>
              /\ model.initializer_seed = <<1337>>
              /\ random.generator_enabled
              /\ model.layout_map_mesh = mesh
              /\ mesh.exists
        /\ optimizer.exists => (optimizer.mesh = mesh /\ mesh.exists)
        /\ train_call.exists =>
              /\ train_call.optimizer.built_over = model
              /\ train_call.model = model
              /\ train_call.optimizer = optimizer
              /\ train_call.mesh = mesh
              /\ model.exists

C7_Witness ==
    /\ pc.test = "cpu"
    /\ train_call.exists
    /\ verdict = "passed"
    /\ Len(train_losses) = 3

====
